---- MODULE Spec2Model ----
(***************************************************************************)
(* Model of mini_project_v2.py: a Streamlit script that fetches exoplanet  *)
(* rows from the NASA Exoplanet Archive (memoised by st.cache_data),       *)
(* filters them by slider ranges, computes a radial-velocity amplitude per *)
(* row and charts one sine curve per row.                                  *)
(*                                                                         *)
(* Numbers.  Python floats are modelled as binary floating-point values    *)
(* s * m * 2^e with a MantBits-bit mantissa, round-to-nearest-even after   *)
(* every arithmetic operation, and the two non-finite classes inf and nan  *)
(* with numpy's rules (x/0 = inf, 0/0 = nan, inf*0 = nan).  The exponent   *)
(* is not bounded, so overflow to inf by magnitude is outside the model.   *)
(***************************************************************************)
EXTENDS Integers, Sequences, FiniteSets, TLC

\* ------------------------------------------------------------------------
\* Bounds of the model
\* ------------------------------------------------------------------------
MantBits == 6

MaxLimit == 2

MaxQueries == 2

MaxRows == 2

\* ------------------------------------------------------------------------
\* Program constants
\* ------------------------------------------------------------------------
NumPoints == 1000

EccSliderMax == 100

\* ------------------------------------------------------------------------
\* Floating point
\* ------------------------------------------------------------------------
NaNF == [k |-> "nan", s |-> 1, m |-> 0, e |-> 0]

InfF(sg) == [k |-> "inf", s |-> sg, m |-> 0, e |-> 0]

ZeroF == [k |-> "fin", s |-> 1, m |-> 0, e |-> 0]

IsFinite(x) == x.k = "fin"

IsZero(x) == x.k = "fin" /\ x.m = 0

RECURSIVE BitLen(_)
BitLen(n) == IF n = 0 THEN 0 ELSE 1 + BitLen(n \div 2)

\* s * m * 2^e (plus a nonzero tail below m when sticky) rounded to MantBits
\* bits, ties to even; the result is normalised.
RoundF(sg, m, e, sticky) ==
  IF m = 0 THEN ZeroF
  ELSE LET b == BitLen(m) IN
    IF b <= MantBits
    THEN [k |-> "fin", s |-> sg, m |-> m * 2^(MantBits - b), e |-> e - (MantBits - b)]
    ELSE LET sh   == b - MantBits
             q    == m \div 2^sh
             r    == m % 2^sh
             half == 2^(sh - 1)
             up   == r > half \/ (r = half /\ (sticky \/ q % 2 = 1))
             q2   == IF up THEN q + 1 ELSE q
         IN IF q2 = 2^MantBits
            THEN [k |-> "fin", s |-> sg, m |-> 2^(MantBits - 1), e |-> e + sh + 1]
            ELSE [k |-> "fin", s |-> sg, m |-> q2, e |-> e + sh]

FromInt(n) == IF n < 0 THEN RoundF(-1, -n, 0, FALSE) ELSE RoundF(1, n, 0, FALSE)

\* a float literal n / 100 (a slider position with step 0.01)
FromHundredths(n) ==
  LET q == (n * 2^20) \div 100
      r == (n * 2^20) % 100
  IN RoundF(1, q, -20, r # 0)

FMul(a, b) ==
  IF a.k = "nan" \/ b.k = "nan" THEN NaNF
  ELSE IF a.k = "inf" \/ b.k = "inf"
       THEN IF IsZero(a) \/ IsZero(b) THEN NaNF ELSE InfF(a.s * b.s)
       ELSE RoundF(a.s * b.s, a.m * b.m, a.e + b.e, FALSE)

\* numpy float64 division: a zero divisor gives inf or nan (with a
\* RuntimeWarning), never an exception.
FDiv(a, b) ==
  IF a.k = "nan" \/ b.k = "nan" THEN NaNF
  ELSE IF a.k = "inf"
       THEN IF b.k = "inf" THEN NaNF ELSE InfF(a.s * b.s)
       ELSE IF b.k = "inf" THEN ZeroF
       ELSE IF b.m = 0
            THEN IF a.m = 0 THEN NaNF ELSE InfF(a.s)
            ELSE LET n == a.m * 2^(MantBits + 2)
                 IN RoundF(a.s * b.s, n \div b.m, a.e - b.e - (MantBits + 2), n % b.m # 0)

\* a - b for finite a, b
FSub(a, b) ==
  IF a.k = "nan" \/ b.k = "nan" THEN NaNF
  ELSE IF a.k = "inf" \/ b.k = "inf"
       THEN IF a.k = "inf" /\ b.k = "inf" /\ a.s = b.s THEN NaNF
            ELSE IF a.k = "inf" THEN a ELSE InfF(-b.s)
       ELSE IF b.m = 0 THEN a
       ELSE IF a.m = 0 THEN [b EXCEPT !.s = -b.s]
       ELSE LET lo == IF a.e < b.e THEN a.e ELSE b.e
                d  == a.s * a.m * 2^(a.e - lo) - b.s * b.m * 2^(b.e - lo)
            IN IF d < 0 THEN RoundF(-1, -d, lo, FALSE) ELSE RoundF(1, d, lo, FALSE)

RECURSIVE RootSearch(_, _, _, _)
\* the largest r in lo..hi-1 with r^n <= x, given lo^n <= x < hi^n
RootSearch(x, n, lo, hi) ==
  IF hi - lo <= 1 THEN lo
  ELSE LET mid == (lo + hi) \div 2
       IN IF mid^n <= x THEN RootSearch(x, n, mid, hi) ELSE RootSearch(x, n, lo, mid)

\* np.sqrt: nan for a negative argument
FSqrt(a) ==
  IF a.k = "nan" THEN NaNF
  ELSE IF a.k = "inf" THEN (IF a.s = 1 THEN a ELSE NaNF)
  ELSE IF a.m = 0 THEN ZeroF
  ELSE IF a.s = -1 THEN NaNF
  ELSE LET t == IF (a.e - (MantBits + 3)) % 2 = 0 THEN MantBits + 3 ELSE MantBits + 4
           x == a.m * 2^t
           r == RootSearch(x, 2, 0, 2^(MantBits + 3))
       IN RoundF(1, r, (a.e - t) \div 2, r * r # x)

\* a ** (1/3) for a >= 0
FCbrt(a) ==
  IF a.k = "nan" THEN NaNF
  ELSE IF a.k = "inf" THEN (IF a.s = 1 THEN a ELSE NaNF)
  ELSE IF a.m = 0 THEN ZeroF
  ELSE IF a.s = -1 THEN NaNF
  ELSE LET t0 == 2 * MantBits + 4
           t  == t0 + ((a.e - t0) % 3)
           x  == a.m * 2^t
           r  == RootSearch(x, 3, 0, 2^(MantBits + 3))
       IN RoundF(1, r, (a.e - t) \div 3, r * r * r # x)

\* a ** (2/3) for a >= 0
FPow23(a) ==
  IF a.k = "nan" THEN NaNF
  ELSE IF a.k = "inf" THEN (IF a.s = 1 THEN a ELSE NaNF)
  ELSE IF a.m = 0 THEN ZeroF
  ELSE IF a.s = -1 THEN NaNF
  ELSE LET t0 == MantBits + 5
           t  == t0 + ((2 * a.e - t0) % 3)
           x  == a.m * a.m * 2^t
           r  == RootSearch(x, 3, 0, 2^(MantBits + 4))
       IN RoundF(1, r, (2 * a.e - t) \div 3, r * r * r # x)

\* Physical constants (astropy.constants, numpy), rounded to the format
PiF == RoundF(1, 823550, -18, TRUE)

G_const == RoundF(1, 601167, -53, TRUE)

M_earth_kg == RoundF(1, 647504, 63, TRUE)

M_sun_kg == RoundF(1, 822387, 81, TRUE)

SecondsPerDay == RoundF(1, 675, 7, FALSE)

\* ------------------------------------------------------------------------
\* Step 2: radial velocity amplitude K
\* ------------------------------------------------------------------------
\* the cube root taken of the product with the planet mass (a misplaced
\* parenthesis)
calculate_radial_velocity_misplaced(planet_mass, star_mass, orbital_period, eccentricity) ==
  LET period_s       == FMul(orbital_period, SecondsPerDay)
      planet_mass_kg == FMul(planet_mass, M_earth_kg)
      star_mass_kg   == FMul(star_mass, M_sun_kg)
      two_pi_G       == FMul(FMul(FromInt(2), PiF), G_const)
      base           == FCbrt(FMul(FDiv(two_pi_G, period_s), planet_mass_kg))
      ecc_term       == FSqrt(FSub(FromInt(1), FMul(eccentricity, eccentricity)))
  IN FDiv(FDiv(base, FPow23(star_mass_kg)), ecc_term)

calculate_radial_velocity(planet_mass, star_mass, orbital_period, eccentricity) ==
  LET period_s       == FMul(orbital_period, SecondsPerDay)
      planet_mass_kg == FMul(planet_mass, M_earth_kg)
      star_mass_kg   == FMul(star_mass, M_sun_kg)
      two_pi_G       == FMul(FMul(FromInt(2), PiF), G_const)
      base           == FCbrt(FDiv(two_pi_G, period_s))
      ecc_term       == FSqrt(FSub(FromInt(1), FMul(eccentricity, eccentricity)))
  IN FDiv(FDiv(FMul(base, planet_mass_kg), FPow23(star_mass_kg)), ecc_term)


\* ------------------------------------------------------------------------
\* Step 3: radial velocity curve
\* ------------------------------------------------------------------------
\* Sample times are exact rationals num/den: binary64 holds the 1000 sample
\* times of np.linspace apart, which a MantBits-bit mantissa would not.
Rat(n, d) == [num |-> n, den |-> d]

\* np.linspace(0, time_span, NumPoints): start + i * step, step =
\* time_span / (NumPoints - 1), and the last sample set to the stop value.
linspace(stop, num) ==
  [i \in 1..num |-> IF i = num THEN Rat(stop, 1) ELSE Rat((i - 1) * stop, num - 1)]

\* np.sin(2 * np.pi * t / P) for t = num/den: the angle in 1/1024 turns,
\* then Bhaskara's rational approximation of the sine on a half turn.
\* t / 0 is inf (nan at t = 0) under numpy, and the sine of either is nan.
SinTurns(t, P) ==
  IF P = 0 THEN NaNF
  ELSE LET q == ((t.num * 1024) \div (t.den * P)) % 1024
           a == q % 512
           w == a * (512 - a)
           v == (16 * w * 256) \div (5 * 512 * 512 - 4 * w)
       IN RoundF(IF q < 512 THEN 1 ELSE -1, v, -8, FALSE)

generate_radial_velocity_curve(K, P, time_span) ==
  LET time == linspace(time_span, NumPoints)
  IN [time |-> time,
      velocity |-> [i \in 1..NumPoints |-> FMul(K, SinTurns(time[i], P))]]

\* ------------------------------------------------------------------------
\* Tables
\* ------------------------------------------------------------------------
\* a missing (null) numeric value of a row
NaN == 0 - 1

Row(n, h, m, p, a, e, sm) ==
  [pl_name |-> n, hostname |-> h, pl_bmasse |-> m, pl_orbper |-> p,
   pl_orbsmax |-> a, pl_orbeccen |-> e, st_mass |-> sm]

\* pd.DataFrame(data): a list of no rows makes a frame of no columns
DataFrame(data) == [is_none |-> FALSE, has_cols |-> data # <<>>, rows |-> data]

None == [is_none |-> TRUE, has_cols |-> FALSE, rows |-> <<>>]

Complete(r) ==
  /\ r.pl_bmasse # NaN
  /\ r.pl_orbper # NaN
  /\ r.pl_orbsmax # NaN
  /\ r.pl_orbeccen # NaN
  /\ r.st_mass # NaN

dropna(df) == [df EXCEPT !.rows = SelectSeq(df.rows, Complete)]

Geq(a, b) == a # NaN /\ b # NaN /\ a >= b

Leq(a, b) == a # NaN /\ b # NaN /\ a <= b

Values(rows, col) == {rows[i][col] : i \in 1..Len(rows)} \ {NaN}

\* Series.min() / Series.max(): nan for a column of no values
ColMin(rows, col) ==
  LET S == Values(rows, col)
  IN IF S = {} THEN NaN ELSE CHOOSE v \in S : \A w \in S : v <= w

ColMax(rows, col) ==
  LET S == Values(rows, col)
  IN IF S = {} THEN NaN ELSE CHOOSE v \in S : \A w \in S : v >= w

\* the first matching row lost (an off-by-one in the selection)
FilterRowsDropFirst(rows, min_mass, max_mass, min_period, max_period) ==
  LET Keep(r) == /\ Geq(r.pl_bmasse, min_mass)
                 /\ Leq(r.pl_bmasse, max_mass)
                 /\ Geq(r.pl_orbper, min_period)
                 /\ Leq(r.pl_orbper, max_period)
      kept    == SelectSeq(rows, Keep)
  IN IF kept = <<>> THEN kept ELSE Tail(kept)

FilterRows(rows, min_mass, max_mass, min_period, max_period) ==
  LET Keep(r) == /\ Geq(r.pl_bmasse, min_mass)
                 /\ Leq(r.pl_bmasse, max_mass)
                 /\ Geq(r.pl_orbper, min_period)
                 /\ Leq(r.pl_orbper, max_period)
  IN SelectSeq(rows, Keep)

\* df[['pl_name', 'hostname', 'pl_bmasse', 'pl_orbper', 'pl_orbsmax', 'st_mass']]
Project(rows) ==
  [i \in 1..Len(rows) |->
     [pl_name |-> rows[i].pl_name, hostname |-> rows[i].hostname,
      pl_bmasse |-> rows[i].pl_bmasse, pl_orbper |-> rows[i].pl_orbper,
      pl_orbsmax |-> rows[i].pl_orbsmax, st_mass |-> rows[i].st_mass]]

\* ------------------------------------------------------------------------
\* The remote archive
\* ------------------------------------------------------------------------
\* Tables the service may hold.  Names are unique within a table and the
\* rows are in ascending pl_orbper, as the query orders them; the numeric
\* columns the query filters are positive.  The script does not rely on the
\* service for completeness: its dropna lists every numeric column,
\* pl_bmasse included, so a row may lack any of them.
ArchiveA ==
  <<Row("b", "S1", 1, 1, 1, 10, 1),
    Row("c", "S2", 2, 2, 2, 30, 2)>>

\* a later release of the catalogue: a first row with no planet mass
ArchiveB ==
  <<Row("x", "S3", NaN, 1, 1, 20, 1),
    Row("b", "S1", 1, 2, 1, 10, 1)>>

\* a table with no row that matches the query
ArchiveE == <<>>

Archives == {ArchiveA, ArchiveB, ArchiveE}

\* SELECT TOP limit ... ORDER BY pl_orbper ASC
Response(table, limit) ==
  SubSeq(table, 1, IF limit < Len(table) THEN limit ELSE Len(table))

VARIABLES
  archive,    \* the table the remote service holds now
  cache,      \* st.cache_data's store for fetch_exoplanet_data, by limit
  n_queries,  \* GET requests sent so far
  pc,         \* where the script run is
  df,         \* the script's variable df
  widgets,    \* the values the widgets returned in this run
  page,       \* what this run has put on the page
  exc,        \* the exception that ended the run, "" when none
  fn_in,      \* inputs of a function applied in isolation
  fn_out      \* its results

vars == <<archive, cache, n_queries, pc, df, widgets, page, exc, fn_in, fn_out>>

app_vars == <<archive, cache, n_queries, pc, df, widgets, page, exc>>

\* ------------------------------------------------------------------------
\* Step 1: fetch
\* ------------------------------------------------------------------------
NoEntry == [present |-> FALSE, value |-> None, error |-> FALSE]

\* the body of fetch_exoplanet_data: one GET, its answer's status code
fetch_body(limit, status) ==
  IF status = 200
  THEN [value |-> DataFrame(Response(archive, limit)), error |-> FALSE]
  ELSE [value |-> None, error |-> TRUE]

\* the function without its @st.cache_data decorator: every call sends a GET
fetch_uncached(limit, status) ==
  LET r == fetch_body(limit, status)
  IN [value |-> r.value, error |-> r.error, cache |-> cache, gets |-> 1]

\* @st.cache_data: the body runs on a miss only; its return value (None
\* included) and the st.error it wrote are stored and replayed on a hit.
fetch_exoplanet_data(limit, status) ==
  IF cache[limit].present
  THEN [value |-> cache[limit].value, error |-> cache[limit].error,
        cache |-> cache, gets |-> 0]
  ELSE LET r == fetch_body(limit, status)
       IN [value |-> r.value, error |-> r.error,
           cache |-> [cache EXCEPT ![limit] =
                        [present |-> TRUE, value |-> r.value, error |-> r.error]],
           gets |-> 1]

\* ------------------------------------------------------------------------
\* The script run
\* ------------------------------------------------------------------------
Widgets0 ==
  [dataset_count |-> 0, min_mass |-> NaN, max_mass |-> NaN, min_period |-> NaN,
   max_period |-> NaN, eccentricity |-> 0, selected_star |-> "None",
   refresh |-> FALSE]

Page0 ==
  [errors |-> {}, messages |-> {}, chart_shown |-> FALSE, chart |-> <<>>,
   details_shown |-> FALSE, details |-> <<>>, orbits |-> <<>>,
   refreshed_shown |-> FALSE, refreshed |-> <<>>,
   fetched |-> None, sidebar_gets |-> 0, refresh_gets |-> 0, refresh_value |-> None]

\* st.slider(min_value, max_value): any value between the bounds (whole
\* numbers here).  The bounds of an empty column are float(nan); the slider
\* is taken to hand nan back without raising.
Slider(lo, hi) == IF lo = NaN \/ hi = NaN THEN {NaN} ELSE lo..hi

\* positions of the eccentricity slider, in hundredths: both ends, the
\* largest value below 1 and one in between
EccChoices == {0, 50, 99, EccSliderMax}

Raise(name) == pc' = "crashed" /\ exc' = name

AppInit ==
  /\ archive \in Archives
  /\ cache = [l \in 1..MaxLimit |-> NoEntry]
  /\ n_queries = 0
  /\ pc = "sidebar"
  /\ df = None
  /\ widgets = Widgets0
  /\ page = Page0
  /\ exc = ""

Init == AppInit /\ fn_in = <<>> /\ fn_out = <<>>

\* the remote catalogue is revised between two runs
ArchiveUpdate ==
  /\ pc = "sidebar"
  /\ archive = ArchiveA
  /\ archive' = ArchiveB
  /\ UNCHANGED <<cache, n_queries, pc, df, widgets, page, exc, fn_in, fn_out>>

\* lines 90-105
Sidebar ==
  /\ pc = "sidebar"
  /\ \E count \in 1..MaxLimit, status \in {200, 500} :
       /\ LET r  == fetch_exoplanet_data(count, status)
              d  == IF r.value.is_none THEN r.value ELSE dropna(r.value)
              pg == [page EXCEPT !.errors = IF r.error
                                            THEN @ \cup {"Error fetching data from NASA Exoplanet Archive."}
                                            ELSE @,
                                 !.fetched = r.value,
                                 !.sidebar_gets = r.gets]
          IN /\ r.gets = 0 => status = 200
             /\ r.gets = 1 => n_queries < MaxQueries
             /\ cache' = r.cache
             /\ n_queries' = n_queries + r.gets
             /\ page' = pg
             /\ IF r.value.is_none
                THEN /\ df' = r.value
                     /\ widgets' = [widgets EXCEPT !.dataset_count = count]
                     /\ Raise("TypeError")
                ELSE IF ~r.value.has_cols
                THEN /\ df' = r.value
                     /\ widgets' = [widgets EXCEPT !.dataset_count = count]
                     /\ Raise("KeyError")
                ELSE /\ df' = d
                     /\ \E lo_m \in Slider(ColMin(d.rows, "pl_bmasse"), ColMax(d.rows, "pl_bmasse")) :
                        \E hi_m \in Slider(lo_m, ColMax(d.rows, "pl_bmasse")) :
                        \E lo_p \in Slider(ColMin(d.rows, "pl_orbper"), ColMax(d.rows, "pl_orbper")) :
                        \E hi_p \in Slider(lo_p, ColMax(d.rows, "pl_orbper")) :
                        \E ecc \in EccChoices :
                          widgets' = [widgets EXCEPT !.dataset_count = count,
                                                     !.min_mass = lo_m, !.max_mass = hi_m,
                                                     !.min_period = lo_p, !.max_period = hi_p,
                                                     !.eccentricity = ecc]
                     /\ pc' = "tab1"
                     /\ exc' = exc
  /\ UNCHANGED <<archive, fn_in, fn_out>>

\* the row's catalogue eccentricity used in place of the slider's
TraceCatalogEcc(planet, eccentricity) ==
  LET K     == calculate_radial_velocity(FromInt(planet.pl_bmasse), FromInt(planet.st_mass),
                                         FromInt(planet.pl_orbper),
                                         FromHundredths(planet.pl_orbeccen))
      curve == generate_radial_velocity_curve(K, planet.pl_orbper, planet.pl_orbper * 2)
  IN [name |-> <<planet.pl_name, planet.hostname>>, x |-> curve.time, y |-> curve.velocity]

\* lines 127-142: one trace of the figure
Trace(planet, eccentricity) ==
  LET K     == calculate_radial_velocity(FromInt(planet.pl_bmasse), FromInt(planet.st_mass),
                                         FromInt(planet.pl_orbper), FromHundredths(eccentricity))
      curve == generate_radial_velocity_curve(K, planet.pl_orbper, planet.pl_orbper * 2)
  IN [name |-> <<planet.pl_name, planet.hostname>>, x |-> curve.time, y |-> curve.velocity]

\* lines 108-172
Tab1 ==
  /\ pc = "tab1"
  /\ IF df.is_none
     THEN page' = page
     ELSE LET filtered_df == FilterRows(df.rows, widgets.min_mass, widgets.max_mass,
                                        widgets.min_period, widgets.max_period)
          IN IF filtered_df = <<>>
             THEN page' = [page EXCEPT !.messages = @ \cup {"No planets match your filters!"}]
             ELSE page' = [page EXCEPT !.chart_shown = TRUE,
                                       !.chart = [i \in 1..Len(filtered_df) |->
                                                    Trace(filtered_df[i], widgets.eccentricity)]]
  /\ pc' = "tab2"
  /\ UNCHANGED <<archive, cache, n_queries, df, widgets, exc, fn_in, fn_out>>

\* lines 175-188
Tab2 ==
  /\ pc = "tab2"
  /\ IF df.is_none
     THEN page' = page
     ELSE page' = [page EXCEPT !.details_shown = TRUE, !.details = Project(df.rows)]
  /\ pc' = "tab3"
  /\ UNCHANGED <<archive, cache, n_queries, df, widgets, exc, fn_in, fn_out>>

\* lines 190-218
Tab3 ==
  /\ pc = "tab3"
  /\ IF df.is_none
     THEN Raise("TypeError") /\ UNCHANGED <<widgets, page>>
     ELSE LET stars == {df.rows[i].hostname : i \in 1..Len(df.rows)}
          IN /\ \E star \in (IF stars = {} THEN {"None"} ELSE stars) :
                  LET star_planets == SelectSeq(df.rows, LAMBDA r : r.hostname = star)
                  IN /\ widgets' = [widgets EXCEPT !.selected_star = star]
                     /\ IF star_planets = <<>>
                        THEN page' = [page EXCEPT !.messages =
                                        @ \cup {"No planets available for the selected star."}]
                        ELSE page' = [page EXCEPT !.orbits =
                                        [i \in 1..Len(star_planets) |->
                                           [label |-> star_planets[i].pl_name,
                                            a |-> star_planets[i].pl_orbsmax]]]
             /\ pc' = "tab4"
             /\ exc' = exc
  /\ UNCHANGED <<archive, cache, n_queries, df, fn_in, fn_out>>

\* lines 230-239
Tab4 ==
  /\ pc = "tab4"
  /\ \E pressed \in BOOLEAN, status \in {200, 500} :
       IF pressed
       THEN LET r  == fetch_exoplanet_data(widgets.dataset_count, status)
                pg == [page EXCEPT !.errors = IF r.error
                                              THEN @ \cup {"Error fetching data from NASA Exoplanet Archive."}
                                              ELSE @,
                                   !.messages = @ \cup {"Data refreshed successfully!"},
                                   !.refresh_gets = r.gets,
                                   !.refresh_value = r.value]
            IN /\ r.gets = 0 => status = 200
               /\ r.gets = 1 => n_queries < MaxQueries
               /\ cache' = r.cache
               /\ n_queries' = n_queries + r.gets
               /\ df' = r.value
               /\ widgets' = [widgets EXCEPT !.refresh = TRUE]
               /\ IF r.value.is_none
                  THEN page' = pg /\ Raise("TypeError")
                  ELSE IF ~r.value.has_cols
                  THEN page' = pg /\ Raise("KeyError")
                  ELSE /\ page' = [pg EXCEPT !.refreshed_shown = TRUE,
                                             !.refreshed = Project(r.value.rows)]
                       /\ pc' = "done"
                       /\ exc' = exc
       ELSE /\ status = 200
            /\ pc' = "done"
            /\ UNCHANGED <<cache, n_queries, df, widgets, page, exc>>
  /\ UNCHANGED <<archive, fn_in, fn_out>>

\* any interaction reruns the script from the top
Rerun ==
  /\ pc \in {"done", "crashed"}
  /\ pc' = "sidebar"
  /\ df' = None
  /\ widgets' = Widgets0
  /\ page' = Page0
  /\ exc' = ""
  /\ UNCHANGED <<archive, cache, n_queries, fn_in, fn_out>>

Next == ArchiveUpdate \/ Sidebar \/ Tab1 \/ Tab2 \/ Tab3 \/ Tab4 \/ Rerun

Spec == Init /\ [][Next]_vars

\* ------------------------------------------------------------------------
\* The pure functions applied in isolation
\* ------------------------------------------------------------------------
Parked ==
  /\ archive = ArchiveA
  /\ cache = [l \in 1..MaxLimit |-> NoEntry]
  /\ n_queries = 0
  /\ pc = "parked"
  /\ df = None
  /\ widgets = Widgets0
  /\ page = Page0
  /\ exc = ""

\* valid inputs of the amplitude, in hundredths: both masses and the period
\* positive, 0 <= e < 1
AmpMasses == {1, 37, 100, 250, 999}

AmpStarMasses == {8, 100, 133}

AmpPeriods == {9, 100, 365, 1000}

AmpEccs == {0, 1, 10, 33, 50, 75, 98, 99}

InitAmp ==
  /\ Parked
  /\ fn_in \in [Mp : AmpMasses, Ms : AmpStarMasses, P : AmpPeriods, e : AmpEccs]
  /\ fn_out = <<>>

\* amplitude(Mp, Ms, P, e) and amplitude(2 * Mp, Ms, P, e)
ApplyAmp ==
  /\ pc = "parked"
  /\ fn_out = <<>>
  /\ LET Mp == FromHundredths(fn_in.Mp)
         Ms == FromHundredths(fn_in.Ms)
         P  == FromHundredths(fn_in.P)
         e  == FromHundredths(fn_in.e)
     IN fn_out' = <<calculate_radial_velocity(Mp, Ms, P, e),
                    calculate_radial_velocity(FMul(FromInt(2), Mp), Ms, P, e)>>
  /\ UNCHANGED <<app_vars, fn_in>>

SpecAmp == InitAmp /\ [][ApplyAmp]_vars

FilterMasses == {NaN, 1, 2, 3}

FilterPeriods == {1, 2}

FilterRowKinds == {Row("p", "S", m, p, 1, 0, 1) : m \in FilterMasses, p \in FilterPeriods}

FilterTables == UNION {[1..n -> FilterRowKinds] : n \in 0..MaxRows}

FilterBounds == {NaN, 1, 2, 3}

InitFilter ==
  /\ Parked
  /\ fn_in \in [rows : FilterTables, min_mass : FilterBounds, max_mass : FilterBounds,
                min_period : {1, 2}, max_period : {1, 2}]
  /\ fn_out = <<>>

ApplyFilter ==
  /\ pc = "parked"
  /\ fn_out = <<>>
  /\ fn_out' = <<FilterRows(fn_in.rows, fn_in.min_mass, fn_in.max_mass,
                            fn_in.min_period, fn_in.max_period)>>
  /\ UNCHANGED <<app_vars, fn_in>>

ApplyFilterAgain ==
  /\ pc = "parked"
  /\ Len(fn_out) = 1
  /\ fn_out' = Append(fn_out, FilterRows(fn_out[1], fn_in.min_mass, fn_in.max_mass,
                                         fn_in.min_period, fn_in.max_period))
  /\ UNCHANGED <<app_vars, fn_in>>

NextFilter == ApplyFilter \/ ApplyFilterAgain

SpecFilter == InitFilter /\ [][NextFilter]_vars

\* ------------------------------------------------------------------------
\* Claims
\* ------------------------------------------------------------------------
ErrorNotice == "Error fetching data from NASA Exoplanet Archive."

NoMatch == "No planets match your filters!"

Refreshed == "Data refreshed successfully!"

\* the sidebar has run: the fetch of this run is made
Fetched == pc # "sidebar"

\* the rows Tab1 charts, while df is still the sidebar's table
FilteredRows ==
  FilterRows(df.rows, widgets.min_mass, widgets.max_mass,
             widgets.min_period, widgets.max_period)

RatEq(a, b) == a.num * b.den = b.num * a.den

RatLess(a, b) == a.num * b.den < b.num * a.den

\* b - a = c
RatStep(a, b, c) == (b.num * a.den - a.num * b.den) * c.den = c.num * a.den * b.den

\* C1: in a run whose fetch got a non-200 response (fetch_exoplanet_data
\* returned None), the error notice is on the page and the run does not end
\* in an exception.
C1_FetchFailureDoesNotCrash ==
  (Fetched /\ page.fetched.is_none) => (ErrorNotice \in page.errors /\ exc = "")

\* C2: when exactly one row of the fetched table is incomplete and it lacks
\* its planet mass, that row has no trace in the chart and is in no table
\* shown (Planet Details, the table after Refresh Data), and each table shown
\* has one row less than the fetched table.
C2_MissingMassRowInNoView ==
  LET raw == page.fetched.rows
      bad == {i \in 1..Len(raw) : ~Complete(raw[i])}
      Without(t, n) == /\ Len(t) = Len(raw) - 1
                       /\ \A j \in 1..Len(t) : t[j].pl_name # n
  IN (Fetched /\ ~page.fetched.is_none /\ Cardinality(bad) = 1
        /\ \A i \in bad : raw[i].pl_bmasse = NaN)
     => \A i \in bad :
          /\ \A j \in 1..Len(page.chart) : page.chart[j].name[1] # raw[i].pl_name
          /\ page.details_shown => Without(page.details, raw[i].pl_name)
          /\ page.refreshed_shown => Without(page.refreshed, raw[i].pl_name)

\* C3: with an eccentricity >= 1 the amplitude call fails instead of
\* returning, so no chart is drawn from it, and every value of every charted
\* curve is finite.
C3_NoNonFiniteAmplitudeCharted ==
  page.chart_shown =>
    /\ widgets.eccentricity < EccSliderMax
    /\ \A j \in 1..Len(page.chart) :
         \A i \in 1..Len(page.chart[j].y) : IsFinite(page.chart[j].y[i])

\* C4: a run in which Refresh Data was pressed sent exactly one GET for the
\* refresh, and the table then shown is what the archive holds now.
C4_RefreshQueriesOnce ==
  (pc = "done" /\ widgets.refresh) =>
    /\ page.refresh_gets = 1
    /\ page.refreshed_shown
    /\ page.refreshed = Project(Response(archive, widgets.dataset_count))

\* C5: when a table was fetched and the chosen ranges keep none of its
\* complete rows (also when it has no complete row at all), the run shows
\* the no-match message, draws no chart and raises nothing.
C5_EmptyFilterResultShown ==
  (Fetched /\ pc # "tab1" /\ ~page.fetched.is_none
     /\ FilterRows(dropna(page.fetched).rows, widgets.min_mass, widgets.max_mass,
                   widgets.min_period, widgets.max_period) = <<>>)
  => (NoMatch \in page.messages /\ ~page.chart_shown /\ exc = "")

\* C6: filtering the filtered table again with the same ranges gives the
\* same rows in the same order.
C6_FilterIdempotent == Len(fn_out) = 2 => fn_out[2] = fn_out[1]

C6_Witness ==
  /\ Len(fn_out) = 2
  /\ Len(fn_in.rows) = 2
  /\ Len(fn_out[1]) = 1
  /\ fn_in.min_mass > 1

\* C7: every curve charted has exactly 1000 points, evenly spaced and in
\* increasing time order from 0 to the time span (twice the row's period),
\* and its first velocity is 0.
C7_CurveShape ==
  (pc = "tab2" /\ page.chart_shown) =>
    \A j \in 1..Len(page.chart) :
      LET x == page.chart[j].x
          y == page.chart[j].y
          T == Rat(2 * FilteredRows[j].pl_orbper, 1)
      IN /\ Len(x) = 1000
         /\ Len(y) = 1000
         /\ RatEq(x[1], Rat(0, 1))
         /\ RatEq(x[1000], T)
         /\ \A i \in 1..999 : RatLess(x[i], x[i + 1])
         /\ \A i \in 1..999 : RatStep(x[i], x[i + 1], Rat(T.num, 999))
         /\ y[1] = ZeroF

C9_OneCurvePerRow ==
  (pc \in {"tab2", "tab3", "tab4"} /\ FilteredRows # <<>>) =>
    /\ page.chart_shown
    /\ Len(page.chart) = Len(FilteredRows)
    /\ \A j \in 1..Len(FilteredRows) :
         LET r == FilteredRows[j]
             K == calculate_radial_velocity(FromInt(r.pl_bmasse), FromInt(r.st_mass),
                                            FromInt(r.pl_orbper),
                                            FromHundredths(widgets.eccentricity))
             c == generate_radial_velocity_curve(K, r.pl_orbper, 2 * r.pl_orbper)
         IN page.chart[j] = [name |-> <<r.pl_name, r.hostname>>,
                             x |-> c.time, y |-> c.velocity]

C9_Witness ==
  /\ pc = "tab2"
  /\ Len(page.chart) = 2
  /\ widgets.eccentricity = 50
  /\ page.chart[1].name # page.chart[2].name
  /\ page.chart[1].y # page.chart[2].y

\* C10: the refreshed message is on the page only in a run where Refresh
\* Data was pressed and the fetch it made returned a table.
C10_RefreshedOnlyOnSuccess ==
  Refreshed \in page.messages => (widgets.refresh /\ ~page.refresh_value.is_none)

C10_Witness ==
  /\ pc = "done"
  /\ Refreshed \in page.messages
  /\ page.refreshed_shown
  /\ Len(page.refreshed) = 2
====
